---- MODULE Spec2Model ----
(***************************************************************************)
(* Model of util::profiler (source/util-profiler.cpp): an accumulator that *)
(* maps exact durations to occurrence counts under a mutex, and the scope  *)
(* tracker util::profiler::instance that reports one sample on release.    *)
(***************************************************************************)
EXTENDS Integers, Sequences, FiniteSets, TLC

\* ------------------------------------------------------------------ bounds
NumThreads == 2      \* threads calling into the profiler
MaxClock   == 2      \* high_resolution_clock ticks that may elapse
MaxRecords == 3      \* direct track(duration) calls in one behaviour
MaxQueries == 1      \* count/total/average/percentile calls in one behaviour
MaxSeed    == 2      \* largest occurrence count in a pre-recorded mapping
ManyCalls  == 2000   \* occurrence count of a bucket that dwarfs the others

Threads   == 1..NumThreads
Accs      == {"A", "B"}   \* the util::profiler objects: one and another
Durations == 0..MaxClock

NoThread == 0        \* the mutex is free
NoAcc    == "null"   \* an empty shared_ptr<util::profiler>
End      == -1       \* _timings.end()

\* ----------------------------------------------- double_t as exact values
\* A double_t is finite (the rational n/d, d > 0), +infinity or NaN.
Gcd[x \in Nat, y \in Nat] == IF y = 0 THEN x ELSE Gcd[y, x % y]

Abs(x) == IF x < 0 THEN -x ELSE x

\* the finite value n/d, kept in lowest terms
Fin(n, d) ==
    LET g == Gcd[Abs(n), d]
    IN  [k |-> "fin", n |-> n \div g, d |-> d \div g]
NaN       == [k |-> "nan", n |-> 0, d |-> 1]
Inf       == [k |-> "inf", n |-> 1, d |-> 1]

\* double_t(x) / double_t(y) for integers x >= 0, y >= 0 (IEEE 754).
DDiv(x, y) == IF y = 0 THEN (IF x = 0 THEN NaN ELSE Inf) ELSE Fin(x, y)

DLess(a, b) ==
    /\ a.k # "nan"
    /\ b.k # "nan"
    /\ \/ a.k = "fin" /\ b.k = "fin" /\ a.n * b.d < b.n * a.d
       \/ a.k = "fin" /\ b.k = "inf"

DEq(a, b) ==
    /\ a.k # "nan"
    /\ b.k # "nan"
    /\ \/ a.k = "fin" /\ b.k = "fin" /\ a.n * b.d = b.n * a.d
       \/ a.k = "inf" /\ b.k = "inf"

DLeq(a, b) == DLess(a, b) \/ DEq(a, b)

Lcm(x, y) == (x \div Gcd[x, y]) * y

\* a + c and a - c for a finite c
DAdd(a, c) ==
    IF a.k # "fin" THEN a
    ELSE LET l == Lcm(a.d, c.d)
         IN  Fin(a.n * (l \div a.d) + c.n * (l \div c.d), l)
DSub(a, c) ==
    IF a.k # "fin" THEN a
    ELSE LET l == Lcm(a.d, c.d)
         IN  Fin(a.n * (l \div a.d) - c.n * (l \div c.d), l)

\* is_equal(a, b, c): (a == b) || ((a >= (b - c)) && (a <= (b + c)))
is_equal(a, b, c) ==
    DEq(a, b) \/ (DLeq(DSub(b, c), a) /\ DLeq(a, DAdd(b, c)))

PUnit     == 100000              \* percentile arguments are pn / PUnit
\* (variant) the by-time comparison made with the by-call tolerance
TolByTimeWide == Fin(5, 10000)
TolByTime == Fin(5, 100000)      \* 0.00005
\* (variant) the by-call comparison made with the by-time tolerance
TolByCallTight == Fin(5, 100000)
TolByCall == Fin(5, 10000)       \* 0.0005

\* percentile arguments tried, as numerators over PUnit: 0, 1, one half and
\* values 0.00004, 0.0004 and 0.0006 away from one half, on either side of
\* the two tolerances. None lies exactly a tolerance away from a fraction
\* the walks form, so comparing the exact values decides as double_t does.
Percentiles == {0, 49960, 50000, 50004, 50040, 50060, 100000}

\* --------------------------------- std::map<nanoseconds, size_t> as a list
\* The mapping is the list of its (first, second) pairs in ascending key
\* order, which is the order begin()..end() visits them.
Keys(m) == {m[i].first : i \in 1..Len(m)}

\* find(): an iterator is identified by the key of its node, or End.
Find(m, k) == IF k \in Keys(m) THEN k ELSE End

At(m, k) == m[CHOOSE i \in 1..Len(m) : m[i].first = k]

\* (variant) a container without key order: a new node goes to the front
InsertAtFront(m, k, v) ==
    IF k \in Keys(m) THEN m ELSE <<[first |-> k, second |-> v]>> \o m

\* insert({k, v}): no effect when the key is present, else a new node at
\* its place in key order.
Insert(m, k, v) ==
    IF k \in Keys(m) THEN m
    ELSE LET lo == SelectSeq(m, LAMBDA e : e.first < k)
             hi == SelectSeq(m, LAMBDA e : e.first > k)
         IN  lo \o <<[first |-> k, second |-> v]>> \o hi

\* itr->second++
Increment(m, k) ==
    LET i == CHOOSE j \in 1..Len(m) : m[j].first = k
    IN  [m EXCEPT ![i].second = @ + 1]

\* (variant) every bucket counted once, whatever its occurrence count
SumCountsPerKey(m) == Len(m)

RECURSIVE SumCounts(_)
\* for (auto kv : copy_timings) count += kv.second;
SumCounts(m) == IF m = <<>> THEN 0 ELSE Head(m).second + SumCounts(Tail(m))

RECURSIVE SumDurationsPerKey(_)
\* (variant) every distinct duration added once
SumDurationsPerKey(m) ==
    IF m = <<>> THEN 0 ELSE Head(m).first + SumDurationsPerKey(Tail(m))

RECURSIVE SumDurations(_)
\* for (auto kv : copy_timings) duration += kv.first * kv.second;
SumDurations(m) ==
    IF m = <<>> THEN 0
    ELSE Head(m).first * Head(m).second + SumDurations(Tail(m))

\* ------------------------------------------------------------------- state
VARIABLES
    timings,    \* [Accs -> mapping]       profiler::_timings
    lock,       \* [Accs -> thread]        owner of profiler::_timings_lock
    now,        \* high_resolution_clock::now()
    inst,       \* [Threads -> tracker]    the profiler::instance a thread holds
    pc,         \* [Threads -> label]      where each thread is in its call
    frame,      \* [Threads -> locals]     locals of the call in progress
    ret,        \* what the step just taken returned to its caller, if it
                \* was the return of a query or the end of a tracker
    ops,        \* direct track(duration) calls begun so far
    queries,    \* query calls begun so far
    hist,       \* [Accs -> [Durations -> Nat]] track calls completed (history)
    released    \* [Accs -> Nat] bound trackers whose release completed (history)

vars == <<timings, lock, now, inst, pc, frame, ret, ops, queries, hist, released>>

\* A thread creates one tracker in a behaviour: none, live, dying (inside
\* ~instance), gone. origin, cancelled, stop and reparented (the last
\* argument of reparent other than origin) are its history.
NoInst ==
    [state |-> "none", parent |-> NoAcc, start |-> 0,
     origin |-> NoAcc, cancelled |-> FALSE, stop |-> 0, reparented |-> NoAcc]

GoneInst == [NoInst EXCEPT !.state = "gone"]

\* The locals of a call; lo and counted are history: the track calls
\* completed when a query began, and those completed, by duration, when
\* percentile took its count().
NoFrame ==
    [acc |-> NoAcc, dur |-> 0, itr |-> End, calls |-> 0, p |-> 0,
     by_time |-> FALSE, dtor |-> FALSE, lo |-> 0,
     counted |-> [d \in Durations |-> 0]]

NoRet == [op |-> "none"]

TrackLabels == {"track_lock", "track_find", "track_store"}

RECURSIVE SumHist(_, _)
SumHist(h, ds) ==
    IF ds = {} THEN 0
    ELSE LET d == CHOOSE x \in ds : TRUE IN h[d] + SumHist(h, ds \ {d})

\* track calls completed on accumulator a
Done(a) == SumHist(hist[a], Durations)

\* threads inside track(duration) on accumulator a
InTrack(a) == {t \in Threads : pc[t] \in TrackLabels /\ frame[t].acc = a}

\* track calls begun on accumulator a (completed or still running)
Begun(a) == Done(a) + Cardinality(InTrack(a))

Crashed == \E t \in Threads : pc[t] = "crashed"

\* thread t is at label l of a running process
Is(t, l) == pc[t] = l /\ ~Crashed

\* a call may begin
MayCall(t) == Is(t, "idle")

\* a query may begin
MayQuery(t) == MayCall(t) /\ queries < MaxQueries

\* util::profiler::profiler() {} for every accumulator; no thread in a call.
Init ==
    /\ timings = [a \in Accs |-> <<>>]
    /\ lock = [a \in Accs |-> NoThread]
    /\ now = 0
    /\ inst = [t \in Threads |-> NoInst]
    /\ pc = [t \in Threads |-> "idle"]
    /\ frame = [t \in Threads |-> NoFrame]
    /\ ret = NoRet
    /\ ops = 0
    /\ queries = 0
    /\ hist = [a \in Accs |-> [d \in Durations |-> 0]]
    /\ released = [a \in Accs |-> 0]

\* The clock advances.
Tick ==
    /\ ~Crashed
    /\ now < MaxClock
    /\ now' = now + 1
    /\ ret' = NoRet
    /\ UNCHANGED <<timings, lock, inst, pc, frame, ops, queries, hist, released>>

\* (variant) the lock is taken without waiting for its owner
AcquireNoWait(t, a) == lock' = [lock EXCEPT ![a] = t]

\* std::unique_lock<std::mutex> ul(_timings_lock)
Acquire(t, a) == lock[a] = NoThread /\ lock' = [lock EXCEPT ![a] = t]

\* (variant) a scope that ends without unlocking
ReleaseNever(t, a) == lock' = lock

\* ~unique_lock at the end of its scope
Release(t, a) == lock' = [lock EXCEPT ![a] = NoThread]

\* ---------------------------------------------------------- scope tracker
\* profiler::track(): make_shared<instance>(shared_from_this())
\* instance::instance(parent): _parent(parent), _start(now())
TrackerCreate(t, a) ==
    /\ MayCall(t)
    /\ inst[t].state = "none"
    /\ inst' = [inst EXCEPT ![t] =
                  [NoInst EXCEPT !.state = "live", !.parent = a, !.start = now,
                                 !.origin = a]]
    /\ ret' = NoRet
    /\ UNCHANGED <<timings, lock, now, pc, frame, ops, queries, hist, released>>

\* (variant) cancel() that leaves _parent bound
CancelledInstStillBound(i) == [i EXCEPT !.cancelled = TRUE]

\* _parent.reset()
CancelledInst(i) == [i EXCEPT !.parent = NoAcc, !.cancelled = TRUE]

\* instance::cancel()
Cancel(t) ==
    /\ MayCall(t)
    /\ inst[t].state = "live"
    /\ inst' = [inst EXCEPT ![t] = CancelledInst(@)]
    /\ ret' = NoRet
    /\ UNCHANGED <<timings, lock, now, pc, frame, ops, queries, hist, released>>

\* (variant) _parent = parent: the tracker is bound to the argument
ReboundInst(i, b) == [i EXCEPT !.parent = b]

\* parent = parent: the argument is assigned to itself, _parent is not written
ReparentedInst(i, b) == i

\* instance::reparent(parent)
Reparent(t, b) ==
    /\ MayCall(t)
    /\ inst[t].state = "live"
    /\ inst' = [inst EXCEPT ![t] =
                  [ReparentedInst(@, b) EXCEPT
                      !.reparented = IF b # inst[t].origin THEN b ELSE @]]
    /\ ret' = NoRet
    /\ UNCHANGED <<timings, lock, now, pc, frame, ops, queries, hist, released>>

\* The tracker of thread t is gone. What its release did is noted: the
\* accumulator it was created from, whether it was cancelled, what it was
\* last reparented to, its two timestamps, the track calls it made, the
\* duration it passed and whether the mappings are as they were before the
\* last step.
Released(t, reports, sample, same) ==
    [op |-> "release", thread |-> t, origin |-> inst[t].origin,
     parent |-> inst[t].parent, cancelled |-> inst[t].cancelled,
     reparented |-> inst[t].reparented,
     start |-> inst[t].start, stop |-> inst[t].stop,
     reports |-> reports, sample |-> sample, same |-> same]

\* (variant) the end timestamp taken for the duration
ElapsedSinceEpoch(end, start) == end

\* auto dur = end - _start;
Elapsed(end, start) == end - start

\* instance::~instance(): end = now(); dur = end - _start;
\* if (_parent) _parent->track(dur);
Dtor(t) ==
    /\ MayCall(t)
    /\ inst[t].state = "live"
    /\ UNCHANGED <<timings, lock, now, ops, queries, hist, released>>
    /\ LET end == now
           dur == Elapsed(end, inst[t].start)
       IN  IF inst[t].parent # NoAcc
           THEN /\ inst' = [inst EXCEPT ![t].state = "dying", ![t].stop = end]
                /\ pc' = [pc EXCEPT ![t] = "track_lock"]
                /\ frame' = [frame EXCEPT ![t] =
                               [NoFrame EXCEPT !.acc = inst[t].parent,
                                               !.dur = dur, !.dtor = TRUE]]
                /\ ret' = NoRet
           ELSE /\ inst' = [inst EXCEPT ![t] = GoneInst]
                /\ ret' = Released(t, 0, 0, timings' = timings)
                /\ UNCHANGED <<pc, frame>>

\* ------------------------------------------- profiler::track(duration)
\* A direct call of track(duration) with a duration the caller measured.
TrackCall(t, a, d) ==
    /\ MayCall(t)
    /\ ops < MaxRecords
    /\ ops' = ops + 1
    /\ ret' = NoRet
    /\ pc' = [pc EXCEPT ![t] = "track_lock"]
    /\ frame' = [frame EXCEPT ![t] = [NoFrame EXCEPT !.acc = a, !.dur = d]]
    /\ UNCHANGED <<timings, lock, now, inst, queries, hist, released>>

\* std::unique_lock<std::mutex> ul(_timings_lock);
TrackLock(t) ==
    /\ Is(t, "track_lock")
    /\ Acquire(t, frame[t].acc)
    /\ pc' = [pc EXCEPT ![t] = "track_find"]
    /\ ret' = NoRet
    /\ UNCHANGED <<timings, now, inst, frame, ops, queries, hist, released>>

\* auto itr = _timings.find(duration);
TrackFind(t) ==
    /\ Is(t, "track_find")
    /\ frame' = [frame EXCEPT ![t].itr = Find(timings[frame[t].acc], frame[t].dur)]
    /\ pc' = [pc EXCEPT ![t] = "track_store"]
    /\ ret' = NoRet
    /\ UNCHANGED <<timings, lock, now, inst, ops, queries, hist, released>>

\* (variant) insert({duration, 1}) whatever find() returned
StoreInsertOnly(m, itr, d) == Insert(m, d, 1)

\* if (itr == _timings.end()) insert({duration, 1}) else itr->second++
Store(m, itr, d) == IF itr = End THEN Insert(m, d, 1) ELSE Increment(m, itr)

\* the insert or the increment, then the lock is dropped and track returns;
\* when the caller is ~instance, the tracker is gone after it.
TrackStore(t) ==
    LET a == frame[t].acc
        d == frame[t].dur
    IN  /\ Is(t, "track_store")
        /\ timings' = [timings EXCEPT ![a] = Store(@, frame[t].itr, d)]
        /\ Release(t, a)
        /\ hist' = [hist EXCEPT ![a][d] = @ + 1]
        /\ IF frame[t].dtor
           THEN /\ inst' = [inst EXCEPT ![t] = GoneInst]
                /\ released' = [released EXCEPT ![a] = @ + 1]
                /\ ret' = Released(t, 1, d, timings' = timings)
           ELSE /\ ret' = NoRet
                /\ UNCHANGED <<inst, released>>
        /\ pc' = [pc EXCEPT ![t] = "idle"]
        /\ frame' = [frame EXCEPT ![t] = NoFrame]
        /\ UNCHANGED <<now, ops, queries>>

\* ----------------------------------------------------- snapshot queries
\* Every query copies _timings under the lock and works on the copy after
\* the lock is dropped. The work on the copy reads no shared state, so the
\* copy, the unlock and the work on the copy are one step.

\* Entry of count / total_duration / average_duration / percentile on a;
\* lo notes the track calls completed on a when the query began.
QueryCall(t, a, label, p, by_time) ==
    /\ MayQuery(t)
    /\ queries' = queries + 1
    /\ ret' = NoRet
    /\ pc' = [pc EXCEPT ![t] = label]
    /\ frame' = [frame EXCEPT ![t] =
                   [NoFrame EXCEPT !.acc = a, !.p = p, !.by_time = by_time,
                                   !.lo = Done(a)]]
    /\ UNCHANGED <<timings, lock, now, inst, ops, hist, released>>

\* { std::unique_lock<std::mutex> ul(_timings_lock);
QueryLock(t, from, to) ==
    /\ Is(t, from)
    /\ Acquire(t, frame[t].acc)
    /\ pc' = [pc EXCEPT ![t] = to]
    /\ ret' = NoRet
    /\ UNCHANGED <<timings, now, inst, frame, ops, queries, hist, released>>

\*   copy(_timings.begin(), _timings.end(), inserter(copy_timings, ...)); }
copy_timings(t) == timings[frame[t].acc]

\* The query of thread t returns val; ub tells that it ran into undefined
\* behaviour on the way.
Result(t, op, val, ub) ==
    [op |-> op, thread |-> t, acc |-> frame[t].acc, val |-> val,
     p |-> frame[t].p, by_time |-> frame[t].by_time, calls |-> frame[t].calls,
     ub |-> ub, lo |-> frame[t].lo, counted |-> frame[t].counted]

\* (variant) the copy made by moving the mapping out of the accumulator
ReturnMoved(t, op, val, ub) ==
    /\ Release(t, frame[t].acc)
    /\ ret' = Result(t, op, val, ub)
    /\ pc' = [pc EXCEPT ![t] = "idle"]
    /\ frame' = [frame EXCEPT ![t] = NoFrame]
    /\ timings' = [timings EXCEPT ![frame[t].acc] = <<>>]
    /\ UNCHANGED <<now, inst, ops, queries, hist, released>>

Return(t, op, val, ub) ==
    /\ Release(t, frame[t].acc)
    /\ ret' = Result(t, op, val, ub)
    /\ pc' = [pc EXCEPT ![t] = "idle"]
    /\ frame' = [frame EXCEPT ![t] = NoFrame]
    /\ UNCHANGED <<timings, now, inst, ops, queries, hist, released>>

\* uint64_t profiler::count()
CountCall(t, a) == QueryCall(t, a, "count_lock", 0, FALSE)
CountLock(t)    == QueryLock(t, "count_lock", "count_copy")
CountSum(t) ==
    /\ Is(t, "count_copy")
    /\ Return(t, "count", SumCounts(copy_timings(t)), FALSE)

\* nanoseconds profiler::total_duration()
TotalCall(t, a) == QueryCall(t, a, "total_lock", 0, FALSE)
TotalLock(t)    == QueryLock(t, "total_lock", "total_copy")
TotalSum(t) ==
    /\ Is(t, "total_copy")
    /\ Return(t, "total_duration", SumDurations(copy_timings(t)), FALSE)

\* return double_t(duration.count()) / double_t(count);
Average(m) == DDiv(SumDurations(m), SumCounts(m))

\* double_t profiler::average_duration()
AverageCall(t, a) == QueryCall(t, a, "avg_lock", 0, FALSE)
AverageLock(t)    == QueryLock(t, "avg_lock", "avg_copy")
AverageSum(t) ==
    /\ Is(t, "avg_copy")
    /\ Return(t, "average_duration", Average(copy_timings(t)), FALSE)

\* ------------------------------------------------------------ percentile
Sentinel == -1       \* return std::chrono::nanoseconds(-1)

\* What reading begin()->first of an empty map may yield when it yields a
\* value at all.
GarbageDurations == {Sentinel, 0}

RECURSIVE ByTimeWalk(_, _, _, _, _)
\* for (auto kv : copy_timings) {
\*   kv_pct = double_t((kv.first - smallest).count()) / double_t(variance.count());
\*   if (is_equal(kv_pct, percentile, 0.00005) || (kv_pct > percentile))
\*     return kv.first; }
\* return nanoseconds(-1);
ByTimeWalk(m, i, smallest, variance, P) ==
    IF i > Len(m) THEN Sentinel
    ELSE LET kv_pct == DDiv(m[i].first - smallest, variance)
         IN  IF is_equal(kv_pct, P, TolByTime) \/ DLess(P, kv_pct)
             THEN m[i].first
             ELSE ByTimeWalk(m, i + 1, smallest, variance, P)

\* the by_time branch on a non-empty copy
PercentileByTime(m, P) ==
    LET smallest == m[1].first
        largest  == m[Len(m)].first
        variance == largest - smallest
    IN  ByTimeWalk(m, 1, smallest, variance, P)

RECURSIVE ByCallWalk(_, _, _, _, _)
\* for (auto kv : copy_timings) {
\*   accu_calls_last = accu_calls_now; accu_calls_now += kv.second;
\*   percentile_last = double_t(accu_calls_last) / double_t(calls);
\*   percentile_now  = double_t(accu_calls_now) / double_t(calls);
\*   if (is_equal(percentile, percentile_now, 0.0005)
\*       || ((percentile_last < percentile) && (percentile_now > percentile)))
\*     return kv.first; }
\* return nanoseconds(-1);
ByCallWalk(m, i, accu_calls_now, calls, P) ==
    IF i > Len(m) THEN Sentinel
    ELSE LET accu_calls_last == accu_calls_now
             accu_now        == accu_calls_now + m[i].second
             percentile_last == DDiv(accu_calls_last, calls)
             percentile_now  == DDiv(accu_now, calls)
         IN  IF \/ is_equal(P, percentile_now, TolByCall)
                \/ DLess(percentile_last, P) /\ DLess(P, percentile_now)
             THEN m[i].first
             ELSE ByCallWalk(m, i + 1, accu_now, calls, P)

\* the by-call branch after the percentile == 0.0 test
PercentileByCall(m, calls, P) == ByCallWalk(m, 1, 0, calls, P)

\* nanoseconds profiler::percentile(double_t percentile, bool by_time)
PercentileCall(t, a, p, by_time) ==
    QueryCall(t, a, "pct_count_lock", p, by_time)

\* uint64_t calls = count();
PercentileCountLock(t) == QueryLock(t, "pct_count_lock", "pct_count_copy")
PercentileCount(t) ==
    /\ Is(t, "pct_count_copy")
    /\ Release(t, frame[t].acc)
    /\ frame' = [frame EXCEPT ![t].calls = SumCounts(copy_timings(t)),
                              ![t].counted = hist[frame[t].acc]]
    /\ pc' = [pc EXCEPT ![t] = "pct_lock"]
    /\ ret' = NoRet
    /\ UNCHANGED <<timings, now, inst, ops, queries, hist, released>>

PercentileLock(t) == QueryLock(t, "pct_lock", "pct_copy")

\* The process dies (one outcome of undefined behaviour).
Crash(t) ==
    /\ pc' = [pc EXCEPT ![t] = "crashed"]
    /\ Release(t, frame[t].acc)
    /\ ret' = NoRet
    /\ UNCHANGED <<timings, now, inst, frame, ops, queries, hist, released>>

\* The second copy and the branches after it. copy_timings.begin()->first
\* of an empty copy dereferences end(): undefined behaviour, which either
\* kills the process or reads some value and goes on.
PercentileCalc(t) ==
    LET m == copy_timings(t)
        P == Fin(frame[t].p, PUnit)
    IN  /\ Is(t, "pct_copy")
        /\ IF frame[t].by_time
           THEN IF m = <<>>
                THEN \/ Crash(t)
                     \/ Return(t, "percentile", Sentinel, TRUE)
                ELSE Return(t, "percentile", PercentileByTime(m, P), FALSE)
           ELSE IF frame[t].p = 0
                THEN IF m = <<>>
                     THEN \/ Crash(t)
                          \/ \E g \in GarbageDurations :
                                Return(t, "percentile", g, TRUE)
                     ELSE Return(t, "percentile", m[1].first, FALSE)
                ELSE Return(t, "percentile",
                            PercentileByCall(m, frame[t].calls, P), FALSE)

\* ------------------------------------------------------------ behaviours
\* The steps of thread t, its calls made on the accumulators in on.
TrackerStep(t, on) ==
    \/ \E a \in on : TrackerCreate(t, a)
    \/ Cancel(t)
    \/ Dtor(t)

ReparentStep(t) == \E b \in Accs : Reparent(t, b)

TrackStep(t) ==
    \/ TrackLock(t)
    \/ TrackFind(t)
    \/ TrackStore(t)

CountStep(t, on) ==
    \/ \E a \in on : CountCall(t, a)
    \/ CountLock(t)
    \/ CountSum(t)

TotalStep(t, on) ==
    \/ \E a \in on : TotalCall(t, a)
    \/ TotalLock(t)
    \/ TotalSum(t)

AverageStep(t, on) ==
    \/ \E a \in on : AverageCall(t, a)
    \/ AverageLock(t)
    \/ AverageSum(t)

PercentileStep(t, on) ==
    \/ \E a \in on, p \in Percentiles, by_time \in BOOLEAN :
          PercentileCall(t, a, p, by_time)
    \/ PercentileCountLock(t)
    \/ PercentileCount(t)
    \/ PercentileLock(t)
    \/ PercentileCalc(t)

\* Every thread may make every call on every accumulator.
Next ==
    \/ Tick
    \/ \E t \in Threads :
        \/ TrackerStep(t, Accs)
        \/ ReparentStep(t)
        \/ \E a \in Accs, d \in Durations : TrackCall(t, a, d)
        \/ TrackStep(t)
        \/ CountStep(t, Accs)
        \/ TotalStep(t, Accs)
        \/ AverageStep(t, Accs)
        \/ PercentileStep(t, Accs)

Spec == Init /\ [][Next]_vars

\* Threads create trackers from accumulator A, cancel and release them
\* while the clock runs, and call count() on A.
NextTrackers ==
    \/ Tick
    \/ \E t \in Threads :
        \/ TrackerStep(t, {"A"})
        \/ TrackStep(t)
        \/ CountStep(t, {"A"})

SpecTrackers == Init /\ [][NextTrackers]_vars

\* Threads create trackers from accumulator A, cancel, reparent and release
\* them while the clock runs.
NextReparent ==
    \/ Tick
    \/ \E t \in Threads :
        \/ TrackerStep(t, {"A"})
        \/ ReparentStep(t)
        \/ TrackStep(t)

SpecReparent == Init /\ [][NextReparent]_vars

\* Threads call track(duration) and the aggregate queries on accumulator A.
NextRecords ==
    \E t \in Threads :
        \/ \E d \in Durations : TrackCall(t, "A", d)
        \/ TrackStep(t)
        \/ CountStep(t, {"A"})
        \/ TotalStep(t, {"A"})
        \/ AverageStep(t, {"A"})

SpecRecords == Init /\ [][NextRecords]_vars

\* the mapping after n more completed calls of track(d): the first finds
\* the key or inserts it, each of the others finds it and increments it
TrackTimes(m, d, n) ==
    IF n = 0 THEN m
    ELSE LET once == Store(m, Find(m, d), d)
             i    == CHOOSE j \in 1..Len(once) : once[j].first = d
         IN  [once EXCEPT ![i].second = @ + (n - 1)]

RECURSIVE Seeded(_, _)
\* the mapping after f[x] completed calls of track(x) for every x in 0..d
Seeded(f, d) ==
    IF d < 0 THEN <<>> ELSE TrackTimes(Seeded(f, d - 1), d, f[d])

\* Accumulator A has completed some track calls, for each duration a number
\* of them drawn from counts; nothing is in flight.
InitSeeded(counts) ==
    \E f \in [Durations -> counts] :
        /\ timings = [a \in Accs |-> IF a = "A" THEN Seeded(f, MaxClock) ELSE <<>>]
        /\ hist = [a \in Accs |-> IF a = "A" THEN f ELSE [d \in Durations |-> 0]]
        /\ ops = SumHist(f, Durations)
        /\ lock = [a \in Accs |-> NoThread]
        /\ now = 0
        /\ inst = [t \in Threads |-> NoInst]
        /\ pc = [t \in Threads |-> "idle"]
        /\ frame = [t \in Threads |-> NoFrame]
        /\ ret = NoRet
        /\ queries = 0
        /\ released = [a \in Accs |-> 0]

\* at most MaxSeed calls for each duration
InitQuery == InitSeeded(0..MaxSeed)

\* One thread calls the queries on mappings that no longer change.
NextQuery ==
    \E t \in {1} :
        \/ CountStep(t, Accs)
        \/ TotalStep(t, Accs)
        \/ AverageStep(t, Accs)
        \/ PercentileStep(t, Accs)

SpecQuery == InitQuery /\ [][NextQuery]_vars

\* the steps of percentile() after its entry
PercentileRun(t) ==
    \/ PercentileCountLock(t)
    \/ PercentileCount(t)
    \/ PercentileLock(t)
    \/ PercentileCalc(t)

\* Each duration was recorded never, once or ManyCalls times.
InitSkewed == InitSeeded({0, 1, ManyCalls})

\* One thread asks for the two ends of the distribution.
NextSkewed ==
    \E t \in {1} :
        \/ \E p \in {0, PUnit}, by_time \in BOOLEAN :
              PercentileCall(t, "A", p, by_time)
        \/ PercentileRun(t)

SpecSkewed == InitSkewed /\ [][NextSkewed]_vars

\* Threads call track(duration) on accumulator A while by-call percentile
\* runs on it.
NextRacing ==
    \E t \in Threads :
        \/ \E d \in Durations : TrackCall(t, "A", d)
        \/ TrackStep(t)
        \/ \E p \in {50000, PUnit} : PercentileCall(t, "A", p, FALSE)
        \/ PercentileRun(t)

SpecRacing == Init /\ [][NextRacing]_vars

\* Thread 1 creates a tracker from either accumulator, cancels, reparents
\* and releases it and calls the queries on either accumulator, while every
\* thread calls track(duration) on either accumulator.
NextMixed ==
    \/ \E t \in {1} :
        \/ TrackerStep(t, Accs)
        \/ ReparentStep(t)
        \/ CountStep(t, Accs)
        \/ TotalStep(t, Accs)
        \/ AverageStep(t, Accs)
        \/ \E a \in Accs, by_time \in BOOLEAN :
              PercentileCall(t, a, PUnit, by_time)
        \/ PercentileRun(t)
    \/ \E t \in Threads :
        \/ \E a \in Accs : TrackCall(t, a, 1)
        \/ TrackStep(t)

SpecMixed == Init /\ [][NextMixed]_vars

\* Every thread calls track(duration) and every query on accumulator A.
\* What the calls take and hold the mutex for does not depend on their
\* arguments: the duration is 0 and the percentile 0.0.
NextBusy ==
    \E t \in Threads :
        \/ TrackCall(t, "A", 0)
        \/ TrackStep(t)
        \/ CountStep(t, {"A"})
        \/ TotalStep(t, {"A"})
        \/ AverageStep(t, {"A"})
        \/ \E by_time \in BOOLEAN : PercentileCall(t, "A", 0, by_time)
        \/ PercentileRun(t)

\* the next step of the call thread t is in: taking the lock, or the work
\* under it up to the unlock and the return
Continue(t) ==
    \/ TrackStep(t)
    \/ CountLock(t) \/ CountSum(t)
    \/ TotalLock(t) \/ TotalSum(t)
    \/ AverageLock(t) \/ AverageSum(t)
    \/ PercentileRun(t)

\* A thread inside a call is scheduled: when its next step stays possible
\* it is taken. Calls are finitely many in a behaviour, so a mutex that is
\* wanted is in the end free for good and weak fairness is enough.
SpecBusy ==
    Init /\ [][NextBusy]_vars /\ \A t \in Threads : WF_vars(Continue(t))

\* ================================================================ claims
\* The query that just returned ran with no track call in flight on its
\* accumulator: none completed since it began and none is running.
Quiet(r) == InTrack(r.acc) = {} /\ r.lo = Done(r.acc)

\* sum of every duration passed to a completed track call
RECURSIVE HistDuration(_, _)
HistDuration(h, ds) ==
    IF ds = {} THEN 0
    ELSE LET d == CHOOSE x \in ds : TRUE
         IN  d * h[d] + HistDuration(h, ds \ {d})

\* C1: with trackers released concurrently by several threads and none of
\* them cancelled or bypassed by a direct track call, a count() that runs
\* after the releases completed returns the number of trackers released.
C1_CountEqualsReleased ==
    (ret.op = "count" /\ Quiet(ret) /\ ops = 0)
        => ret.val = released[ret.acc]

\* a count() that returned after two threads released a tracker each
C1_Witness ==
    /\ ret.op = "count"
    /\ Quiet(ret)
    /\ ops = 0
    /\ released[ret.acc] >= 2

\* C2: count() with no track call in flight returns the number of track
\* calls made on the accumulator, duplicates included.
C2_CountEqualsCalls ==
    (ret.op = "count" /\ Quiet(ret)) => ret.val = Done(ret.acc)

\* a count() that returned 3 after one duration was recorded twice
C2_Witness ==
    /\ ret.op = "count"
    /\ Quiet(ret)
    /\ ret.val >= 3
    /\ \E d \in Durations : hist[ret.acc][d] >= 2

\* C3: total_duration() with no track call in flight returns the sum of
\* the durations of all track calls made, each once per call.
C3_TotalIsSumOfCalls ==
    (ret.op = "total_duration" /\ Quiet(ret))
        => ret.val = HistDuration(hist[ret.acc], Durations)

\* a total_duration() that returned after a non-zero duration was
\* recorded twice
C3_Witness ==
    /\ ret.op = "total_duration"
    /\ Quiet(ret)
    /\ \E d \in Durations : d > 0 /\ hist[ret.acc][d] >= 2

\* C4: at every moment the mapping holds exactly one key for each duration
\* some completed track call passed, and no other key, and the count under
\* a key is the number of completed track calls that passed that duration.
C4_OneKeyPerDuration ==
    \A a \in Accs :
        /\ Keys(timings[a]) = {d \in Durations : hist[a][d] > 0}
        /\ \A d \in Keys(timings[a]) :
              /\ Cardinality({i \in 1..Len(timings[a]) :
                                 timings[a][i].first = d}) = 1
              /\ At(timings[a], d).second = hist[a][d]

\* a mapping with two keys, one of them recorded more than once
C4_Witness ==
    \E a \in Accs :
        /\ Len(timings[a]) >= 2
        /\ \E d \in Durations : hist[a][d] >= 2

\* C5: a tracker that was never cancelled has, when it is gone, made
\* exactly one track call, with the release timestamp minus the
\* construction timestamp as duration, and that sample is in the mapping
\* of its accumulator; a tracker adds nothing before its release, so the
\* samples of an accumulator are as many as the releases completed on it.
C5_OneSampleAtRelease ==
    /\ (ret.op = "release" /\ ~ret.cancelled) =>
          /\ ret.reports = 1
          /\ ret.sample = ret.stop - ret.start
          /\ ret.sample \in Keys(timings[ret.origin])
    /\ ops = 0 => \A a \in Accs : SumCounts(timings[a]) = released[a]

\* a tracker created after the clock had advanced, released later still
C5_Witness ==
    /\ ret.op = "release"
    /\ ~ret.cancelled
    /\ ret.start > 0
    /\ ret.stop > ret.start

\* C6: a cancelled tracker makes no track call when it is released and the
\* release leaves every mapping as it was; cancelling it again changes
\* nothing.
C6_CancelledReportsNothing ==
    /\ (ret.op = "release" /\ ret.cancelled) =>
          /\ ret.reports = 0
          /\ ret.same
    /\ \A t \in Threads :
          (inst[t].state = "live" /\ inst[t].cancelled)
              => CancelledInst(inst[t]) = inst[t]

\* a cancelled tracker was released while its accumulator held a sample
C6_Witness ==
    /\ ret.op = "release"
    /\ ret.cancelled
    /\ timings[ret.origin] # <<>>

\* C7: a count() that runs while track calls run returns the number of
\* track calls completed at the instant of its copy, each track call
\* counted whole or not at all; this is at least the number completed
\* when count() began and at most the number begun when it returned.
C7_CountIsOneInstant ==
    ret.op = "count" =>
        /\ ret.val = Done(ret.acc)
        /\ ret.lo <= ret.val
        /\ ret.val <= Begun(ret.acc)

\* a count() during which a track call completed after another had
\* completed before it began
C7_Witness ==
    /\ ret.op = "count"
    /\ 0 < ret.lo
    /\ ret.lo < ret.val

\* C8 (as claimed): average_duration() on an accumulator without samples
\* yields an error outcome, not the result of 0 / 0.
C8_AverageOfNothingIsError ==
    (ret.op = "average_duration" /\ timings[ret.acc] = <<>>)
        => (ret.val.k = "error" /\ ret.val.k # "nan")

\* C9 (as claimed): percentile on an empty mapping reads no element of the
\* empty copy, returns no duration and does not bring the process down.
C9_PercentileOfNothingIsError ==
    /\ ~Crashed
    /\ (ret.op = "percentile" /\ timings[ret.acc] = <<>>)
          => (~ret.ub /\ ret.val \notin Durations)

\* samples with duration <= d among the completed track calls
CumCount(h, d) == SumHist(h, {x \in Durations : x <= d})

\* the fraction c / n reaches pn / PUnit: it is at least that, or within
\* 0.0005 of it
ReachesByCall(c, n, pn) ==
    \/ c * PUnit >= pn * n
    \/ Abs(c * PUnit - pn * n) <= 50 * n

\* the smallest recorded duration whose cumulative fraction reaches p
FirstReaching(h, pn) ==
    LET n  == SumHist(h, Durations)
        ok == {d \in Durations : h[d] > 0 /\ ReachesByCall(CumCount(h, d), n, pn)}
    IN  CHOOSE d \in ok : \A e \in ok : d <= e

\* C10: on a non-empty accumulator with no track call in flight, by-call
\* percentile(p) for p in (0, 1] returns the smallest recorded duration at
\* which the cumulative-count fraction reaches p, within 0.0005.
C10_ByCallFirstReaching ==
    (/\ ret.op = "percentile"
     /\ ~ret.by_time
     /\ ret.p > 0
     /\ Quiet(ret)
     /\ timings[ret.acc] # <<>>)
        => ret.val = FirstReaching(hist[ret.acc], ret.p)

\* by-call percentile(0.5004) returned a duration whose cumulative
\* fraction is exactly one half, with larger durations recorded
C10_Witness ==
    /\ ret.op = "percentile"
    /\ ~ret.by_time
    /\ ret.p = 50040
    /\ timings[ret.acc] # <<>>
    /\ 2 * CumCount(hist[ret.acc], ret.val) = Done(ret.acc)
    /\ \E d \in Durations : d > ret.val /\ hist[ret.acc][d] > 0

\* the largest and the smallest duration some completed track call passed
MaxRecorded(h) == CHOOSE d \in Durations : h[d] > 0 /\ \A e \in Durations : h[e] > 0 => e <= d
MinRecorded(h) == CHOOSE d \in Durations : h[d] > 0 /\ \A e \in Durations : h[e] > 0 => d <= e

\* C11 (as claimed): on a non-empty accumulator, whatever the occurrence
\* counts of its buckets, by-call percentile(1.0) returns the maximum
\* recorded duration.
C11_ByCallOneIsMaximum ==
    (/\ ret.op = "percentile"
     /\ ~ret.by_time
     /\ ret.p = PUnit
     /\ timings[ret.acc] # <<>>)
        => ret.val = MaxRecorded(hist[ret.acc])

\* the durations some completed track call passed
Recorded(h) == {d \in Durations : h[d] > 0}

\* C12: on a non-empty accumulator, by-call percentile(0.0) returns the
\* minimum recorded duration.
C12_ByCallZeroIsMinimum ==
    (/\ ret.op = "percentile"
     /\ ~ret.by_time
     /\ ret.p = 0
     /\ timings[ret.acc] # <<>>)
        => ret.val = MinRecorded(hist[ret.acc])

\* by-call percentile(0.0) returned on an accumulator with several
\* durations, the smallest of them recorded less often than another
C12_Witness ==
    /\ ret.op = "percentile"
    /\ ~ret.by_time
    /\ ret.p = 0
    /\ Cardinality(Recorded(hist[ret.acc])) >= 2
    /\ \E d \in Durations : hist[ret.acc][d] > hist[ret.acc][ret.val]

\* the position of d between s and l, (d - s) / (l - s), is at least
\* pn / PUnit or within 0.00005 of it
ReachesByTime(d, s, l, pn) ==
    \/ (d - s) * PUnit >= pn * (l - s)
    \/ Abs((d - s) * PUnit - pn * (l - s)) <= 5 * (l - s)

\* the smallest duration of the set ds whose position reaches p
FirstAtPosition(ds, pn) ==
    LET s  == CHOOSE d \in ds : \A e \in ds : d <= e
        l  == CHOOSE d \in ds : \A e \in ds : e <= d
        ok == {d \in ds : ReachesByTime(d, s, l, pn)}
    IN  CHOOSE d \in ok : \A e \in ok : d <= e

\* C13: on an accumulator with at least two distinct durations, by-time
\* percentile(p) returns the smallest recorded duration whose normalized
\* position between the smallest and the largest is at least p, a position
\* within 0.00005 of p counting as equal; the result depends on the set of
\* recorded durations only, not on their occurrence counts.
C13_ByTimeFirstAtPosition ==
    (/\ ret.op = "percentile"
     /\ ret.by_time
     /\ Cardinality(Recorded(hist[ret.acc])) >= 2)
        => ret.val = FirstAtPosition(Recorded(hist[ret.acc]), ret.p)

\* by-time percentile(0.50004) returned the duration half way between the
\* smallest and the largest, recorded less often than the largest
C13_Witness ==
    /\ ret.op = "percentile"
    /\ ret.by_time
    /\ ret.p = 50004
    /\ LET ds == Recorded(hist[ret.acc])
       IN  /\ ret.val \in ds
           /\ \E s \in ds, l \in ds :
                 /\ s < ret.val
                 /\ ret.val < l
                 /\ 2 * (ret.val - s) = l - s
                 /\ hist[ret.acc][ret.val] < hist[ret.acc][l]

\* C15 (as claimed): on a non-empty accumulator, one whose samples all
\* have the same duration included, percentile(p) for p in [0, 1] returns
\* in either mode one of the recorded durations and never the sentinel.
C15_PercentileIsRecorded ==
    (ret.op = "percentile" /\ timings[ret.acc] # <<>>)
        => /\ ret.val \in Recorded(hist[ret.acc])
           /\ ret.val # Sentinel

\* h is a history between those of two instants: no duration has fewer
\* completed calls than in from, none more than in to
Between(h, from, to) ==
    \A d \in Durations : from[d] <= h[d] /\ h[d] <= to[d]

\* The histories the mapping may have gone through during the percentile
\* call that returned r: from lo completed calls up to those counted by
\* its count(), and from these up to those in the mapping it walked.
DuringCall(r) ==
    {h \in [Durations -> 0..MaxRecords] :
        \/ Between(h, [d \in Durations |-> 0], r.counted)
              /\ SumHist(h, Durations) >= r.lo
        \/ Between(h, r.counted, hist[r.acc])}

\* C14 (as claimed): a by-call percentile(p), p > 0, that runs on a
\* non-empty accumulator while track calls run divides by the call count
\* of the mapping state it walks, and returns the by-call percentile of
\* one mapping state that existed during the call.
C14_PercentileOfOneSnapshot ==
    (/\ ret.op = "percentile"
     /\ ~ret.by_time
     /\ ret.p > 0
     /\ ret.lo > 0)
        => /\ ret.calls = SumCounts(timings[ret.acc])
           /\ \E h \in DuringCall(ret) : ret.val = FirstReaching(h, ret.p)

\* C16: reparent(B) leaves the binding of a tracker as it was. A tracker
\* created from A and reparented to B still makes its one track call on A
\* at release, a cancelled one stays unbound and makes none, and B, from
\* which no tracker was created, stays as constructed.
C16_ReparentKeepsBinding ==
    /\ \A t \in Threads :
          (inst[t].state = "live" /\ inst[t].reparented # NoAcc) =>
              inst[t].parent = IF inst[t].cancelled THEN NoAcc ELSE inst[t].origin
    /\ (ret.op = "release" /\ ret.reparented # NoAcc) =>
          IF ret.cancelled
          THEN ret.parent = NoAcc /\ ret.reports = 0 /\ ret.same
          ELSE /\ ret.parent = ret.origin
               /\ ret.reports = 1
               /\ ret.sample \in Keys(timings[ret.origin])
    /\ ops = 0 =>
          /\ timings["B"] = <<>>
          /\ SumCounts(timings["A"]) = released["A"]

\* a tracker created from A was released after reparent(B) and its sample
\* is in A, and a cancelled tracker is live after reparent(B)
C16_Witness ==
    /\ ret.op = "release"
    /\ ret.origin = "A"
    /\ ret.reparented = "B"
    /\ ~ret.cancelled
    /\ ret.sample \in Keys(timings["A"])
    /\ \E t \in Threads :
          /\ inst[t].state = "live"
          /\ inst[t].cancelled
          /\ inst[t].reparented = "B"

\* where a thread is between lock() and the unlock of _timings_lock
LockedLabels ==
    {"track_find", "track_store", "count_copy", "total_copy", "avg_copy",
     "pct_count_copy", "pct_copy"}

\* where a thread waits for _timings_lock
WaitingLabels ==
    {"track_lock", "count_lock", "total_lock", "avg_lock", "pct_count_lock",
     "pct_lock"}

\* threads inside a lock section of accumulator a
Holders(a) == {t \in Threads : pc[t] \in LockedLabels /\ frame[t].acc = a}

\* at most one thread is inside a lock section of an accumulator, the
\* mutex is owned by that thread, and by no thread outside a lock section
LockDiscipline ==
    \A a \in Accs :
        /\ Cardinality(Holders(a)) <= 1
        /\ \A t \in Holders(a) : lock[a] = t
        /\ lock[a] # NoThread => lock[a] \in Holders(a)

\* C17: with every thread inside a call scheduled fairly, every track,
\* count, total_duration, average_duration and percentile call on a
\* non-empty accumulator returns; the mutex is held by one thread at a
\* time and no call returns with it held.
C17_CallsComplete ==
    /\ []LockDiscipline
    /\ \A t \in Threads :
          (pc[t] # "idle" /\ timings[frame[t].acc] # <<>>) ~> (pc[t] = "idle")

\* a thread waits for the mutex of a non-empty accumulator that another
\* thread holds
C17_Witness ==
    \E t \in Threads, u \in Threads :
        /\ t # u
        /\ pc[t] \in WaitingLabels
        /\ timings[frame[t].acc] # <<>>
        /\ lock[frame[t].acc] = u
        /\ u \in Holders(frame[t].acc)

\* the occurrence count of duration k in mapping m, 0 when it has no such key
CountOf(m, k) == IF k \in Keys(m) THEN At(m, k).second ELSE 0

\* mapping n is mapping m with the count of d raised by one and nothing
\* else changed
PlusOne(m, n, d) ==
    /\ Keys(n) = Keys(m) \cup {d}
    /\ Len(n) = Cardinality(Keys(n))
    /\ \A k \in Keys(n) :
          CountOf(n, k) = CountOf(m, k) + (IF k = d THEN 1 ELSE 0)

\* the step is the insert-or-increment of a track call of thread t
Stored(t) == pc[t] = "track_store" /\ pc'[t] = "idle"

\* C18: only track(duration) changes a mapping. A step of count,
\* total_duration, average_duration, percentile, of creating a tracker,
\* of cancel or of reparent leaves every mapping as it was; the store of
\* a track call raises the count of one key by one in one accumulator and
\* changes nothing else; the sum of the counts of a mapping never goes down.
C18_OnlyRecordChanges ==
    [][/\ (\A t \in Threads : ~Stored(t)) => timings' = timings
       /\ (\E t \in Threads : Stored(t)) =>
             \E a \in Accs, d \in Durations :
                 /\ PlusOne(timings[a], timings'[a], d)
                 /\ \A b \in Accs \ {a} : timings'[b] = timings[b]
       /\ \A a \in Accs : SumCounts(timings'[a]) >= SumCounts(timings[a])
      ]_vars

\* percentile returned while both accumulators hold samples, one duration
\* recorded twice, and thread 1 holds a cancelled and reparented tracker
C18_Witness ==
    /\ ret.op = "percentile"
    /\ timings["A"] # <<>>
    /\ timings["B"] # <<>>
    /\ \E a \in Accs, d \in Durations : CountOf(timings[a], d) >= 2
    /\ inst[1].state = "live"
    /\ inst[1].cancelled
    /\ inst[1].reparented # NoAcc

====
